---- MODULE Spec2Model ----
(***************************************************************************)
(* Model of the skill-symlink management CLI (src/cli/shared.ts and the    *)
(* commands under src/cli/commands).  The filesystem is the only state of  *)
(* the tool: a skills root with one entry per skill name and a target      *)
(* directory with one slot per skill name.                                 *)
(***************************************************************************)
EXTENDS Integers, Sequences, FiniteSets, TLC

\* Number of skill names of the model.
MaxSkills == 2

\* Skill names, listed in ascending code-unit order (what Array.sort gives).
AllNames == <<"commit", "pr", "stricli", "wp-cli">>

Names == {AllNames[i] : i \in 1..MaxSkills}

\* Position of a name in ascending lexicographic order.
Rank(n) == CHOOSE i \in 1..Len(AllNames) : AllNames[i] = n

\* Contents a regular file may have.
FileData == {"a", "b"}

SkillsDir == "skillsDir"

TargetDir == "targetDir"

\* path.join(dir, name); join(dir, "") is the directory itself.
join(dir, name) == [dir |-> dir, name |-> name]

\* A path outside both directories that exists, and one that does not.
Elsewhere == [dir |-> "/elsewhere", name |-> ""]

Gone == [dir |-> "/gone", name |-> ""]

\* Another spelling of the path of a skill: it resolves to the same entry of
\* the skills root, but is a different string.
AliasDir == "skillsDir/."

NoPath == [dir |-> "", name |-> ""]

NoEntry == [kind |-> "none", data |-> "", to |-> NoPath]

FileEntry(d) == [kind |-> "file", data |-> d, to |-> NoPath]

DirEntry == [kind |-> "dir", data |-> "", to |-> NoPath]

SymlinkEntry(p) == [kind |-> "symlink", data |-> "", to |-> p]

\* Stored targets the symbolic link at target/<name> may have: the skill's
\* own source path, another spelling of it, another existing path, or a path
\* that does not exist.
LinkTargets(name) ==
  {join(SkillsDir, name), join(AliasDir, name), Elsewhere, Gone}

\* What may be at target/<name>.
Entries(name) ==
  {NoEntry, DirEntry} \cup {FileEntry(d) : d \in FileData}
    \cup {SymlinkEntry(p) : p \in LinkTargets(name)}

VARIABLES
  fs,          \* the filesystem: skills root and target directory
  mode,        \* "shell", the interactive variant waiting for input, "sleep"
  statusList,  \* snapshot of the running interactive iteration
  log,         \* what the last command or iteration did, in order
  out,         \* the lines the last rendering printed
  exitCode,    \* exit code of the last command; -1 when none has exited
  eof,         \* stdin of the running interactive command has ended
  procs        \* the tool processes running side by side, when there are any

vars == <<fs, mode, statusList, log, out, exitCode, eof, procs>>

----------------------------------------------------------------------------
\* node:fs primitives

\* Does a path that is not inside the target directory exist?
PathExists(f, p) ==
  IF p.dir \in {SkillsDir, AliasDir}
    THEN IF p.name = "" THEN f.skillsDir
         ELSE p.name \in Names /\ f.skills[p.name] # "none"
    ELSE p = Elsewhere

\* The entry at a path of the target directory, not following links.
lstatSync(f, p) ==
  IF p.name = ""
    THEN IF f.targetDir THEN DirEntry ELSE NoEntry
    ELSE IF p.name \in Names THEN f.target[p.name] ELSE NoEntry

\* Variant: everything that is not a directory counts as a link.
isSymbolicLink_notDir(stats) == stats.kind # "dir"

isSymbolicLink(stats) == stats.kind = "symlink"

\* existsSync follows symbolic links: a link whose target does not resolve
\* does not exist.
existsSync(f, p) ==
  IF p.dir = TargetDir
    THEN LET e == lstatSync(f, p) IN
         CASE e.kind = "none" -> FALSE
           [] e.kind = "symlink" -> PathExists(f, e.to)
           [] OTHER -> TRUE
    ELSE PathExists(f, p)

readlinkSync(f, p) == lstatSync(f, p).to

\* Variant: every symbolic link of the directory is removed.
unlinkSync_all(f, p) ==
  [f EXCEPT !.target =
     [n \in Names |-> IF f.target[n].kind = "symlink" THEN NoEntry
                      ELSE f.target[n]]]

unlinkSync(f, p) == [f EXCEPT !.target[p.name] = NoEntry]

\* symlinkSync fails with EEXIST when any entry is at the path.
symlinkSync(f, src, p) ==
  IF lstatSync(f, p).kind # "none" \/ p.name \notin Names
    THEN [ok |-> FALSE, fs |-> f]
    ELSE [ok |-> TRUE, fs |-> [f EXCEPT !.target[p.name] = SymlinkEntry(src)]]

mkdirSync(f) == [f EXCEPT !.targetDir = TRUE]

----------------------------------------------------------------------------
\* src/cli/shared.ts

Ev(op, name, result) == [op |-> op, name |-> name, result |-> result]

Ret(f, events, threw) == [fs |-> f, events |-> events, threw |-> threw]

\* readdirSync(skillsDir, { withFileTypes: true }): one Dirent per entry of
\* the skills root, in directory order, which is not the sorted order (here
\* descending).
RECURSIVE readdirSync(_, _)
readdirSync(f, i) ==
  IF i = 0 THEN <<>>
  ELSE IF AllNames[i] \in Names /\ f.skills[AllNames[i]] # "none"
    THEN <<[name |-> AllNames[i], kind |-> f.skills[AllNames[i]]]>>
           \o readdirSync(f, i - 1)
    ELSE readdirSync(f, i - 1)

isDirectory(entry) == entry.kind = "dir"

\* Insert a name into an ascending sequence.
RECURSIVE Insert(_, _)
Insert(s, n) ==
  IF s = <<>> THEN <<n>>
  ELSE IF Rank(n) < Rank(Head(s)) THEN <<n>> \o s
  ELSE <<Head(s)>> \o Insert(Tail(s), n)

\* Array.prototype.sort on names: ascending code-unit order.
RECURSIVE SortNames(_)
SortNames(names) ==
  IF names = <<>> THEN <<>>
  ELSE Insert(SortNames(Tail(names)), Head(names))

\* Variant: the names are returned in directory order.
getAvailableSkills_unsorted(f) ==
  IF ~existsSync(f, join(SkillsDir, ""))
    THEN [exit |-> TRUE, skills |-> <<>>]
    ELSE LET entries == readdirSync(f, Len(AllNames))
             dirs == SelectSeq(entries, isDirectory)
         IN  [exit |-> FALSE,
              skills |-> [i \in 1..Len(dirs) |-> dirs[i].name]]

\* readdirSync + filter(isDirectory) + map(name) + sort
getAvailableSkills(f) ==
  IF ~existsSync(f, join(SkillsDir, ""))
    THEN [exit |-> TRUE, skills |-> <<>>]
    ELSE LET entries == readdirSync(f, Len(AllNames))
             dirs == SelectSeq(entries, isDirectory)
         IN  [exit |-> FALSE,
              skills |-> SortNames([i \in 1..Len(dirs) |-> dirs[i].name])]

\* Variant: the entry is inspected without the existsSync guard.
getSymlinkStatus_lstatOnly(f, skillName) ==
  LET targetPath == join(TargetDir, skillName)
      sourcePath == join(SkillsDir, skillName)
  IN  [name |-> skillName,
       isLinked |-> /\ isSymbolicLink(lstatSync(f, targetPath))
                    /\ readlinkSync(f, targetPath) = sourcePath,
       isBroken |-> FALSE]

\* Variant: an entry that is not a symbolic link is reported broken.
getSymlinkStatus_foreignBroken(f, skillName) ==
  LET targetPath == join(TargetDir, skillName)
      sourcePath == join(SkillsDir, skillName)
  IN  IF existsSync(f, targetPath)
        THEN [name |-> skillName,
              isLinked |-> /\ isSymbolicLink(lstatSync(f, targetPath))
                           /\ readlinkSync(f, targetPath) = sourcePath,
              isBroken |-> ~isSymbolicLink(lstatSync(f, targetPath))]
        ELSE [name |-> skillName, isLinked |-> FALSE, isBroken |-> FALSE]

\* Variant: the negation of the second existsSync is lost.
getSymlinkStatus_brokenFlipped(f, skillName) ==
  LET targetPath == join(TargetDir, skillName)
      sourcePath == join(SkillsDir, skillName)
  IN  IF existsSync(f, targetPath)
        THEN IF isSymbolicLink(lstatSync(f, targetPath))
               THEN [name |-> skillName,
                     isLinked |-> readlinkSync(f, targetPath) = sourcePath,
                     isBroken |-> existsSync(f, targetPath)]
               ELSE [name |-> skillName, isLinked |-> FALSE, isBroken |-> FALSE]
        ELSE [name |-> skillName, isLinked |-> FALSE, isBroken |-> FALSE]

getSymlinkStatus(f, skillName) ==
  LET targetPath == join(TargetDir, skillName)
      sourcePath == join(SkillsDir, skillName)
  IN  IF existsSync(f, targetPath)
        THEN IF isSymbolicLink(lstatSync(f, targetPath))
               THEN [name |-> skillName,
                     isLinked |-> readlinkSync(f, targetPath) = sourcePath,
                     isBroken |-> ~existsSync(f, targetPath)]
               ELSE [name |-> skillName, isLinked |-> FALSE, isBroken |-> FALSE]
        ELSE [name |-> skillName, isLinked |-> FALSE, isBroken |-> FALSE]

ensureTargetDir(f) ==
  IF ~existsSync(f, join(TargetDir, ""))
    THEN Ret(mkdirSync(f), <<Ev("mkdir", "", "created")>>, FALSE)
    ELSE Ret(f, <<>>, FALSE)

\* Variant: whatever is at the target path is removed before linking.
linkSkill_clobber(f0, skillName) ==
  LET d == ensureTargetDir(f0)
      f == d.fs
      sourcePath == join(SkillsDir, skillName)
      targetPath == join(TargetDir, skillName)
  IN  IF ~existsSync(f, sourcePath)
        THEN Ret(f, d.events \o <<Ev("link", skillName, "notFound")>>, FALSE)
      ELSE LET s == symlinkSync(unlinkSync(f, targetPath), sourcePath,
                                targetPath)
           IN  Ret(s.fs, d.events \o <<Ev("link", skillName, "linked")>>, FALSE)

\* Variant: a symbolic link in the slot is removed before the source is
\* looked up.
linkSkill_removeFirst(f0, skillName) ==
  LET d == ensureTargetDir(f0)
      sourcePath == join(SkillsDir, skillName)
      targetPath == join(TargetDir, skillName)
      f == IF existsSync(d.fs, targetPath)
                /\ isSymbolicLink(lstatSync(d.fs, targetPath))
             THEN unlinkSync(d.fs, targetPath) ELSE d.fs
  IN  IF ~existsSync(f, sourcePath)
        THEN Ret(f, d.events \o <<Ev("link", skillName, "notFound")>>, FALSE)
      ELSE IF existsSync(f, targetPath)
        THEN Ret(f, d.events \o <<Ev("link", skillName, "conflict")>>, FALSE)
      ELSE LET s == symlinkSync(f, sourcePath, targetPath)
           IN  IF s.ok
                 THEN Ret(s.fs, d.events \o <<Ev("link", skillName, "linked")>>,
                          FALSE)
                 ELSE Ret(s.fs, d.events \o <<Ev("link", skillName, "EEXIST")>>,
                          TRUE)

linkSkill(f0, skillName) ==
  LET d == ensureTargetDir(f0)
      f == d.fs
      sourcePath == join(SkillsDir, skillName)
      targetPath == join(TargetDir, skillName)
  IN  IF ~existsSync(f, sourcePath)
        THEN Ret(f, d.events \o <<Ev("link", skillName, "notFound")>>, FALSE)
      ELSE IF existsSync(f, targetPath)
                /\ ~isSymbolicLink(lstatSync(f, targetPath))
        THEN Ret(f, d.events \o <<Ev("link", skillName, "conflict")>>, FALSE)
      ELSE LET g == IF existsSync(f, targetPath)
                      THEN unlinkSync(f, targetPath) ELSE f
               s == symlinkSync(g, sourcePath, targetPath)
           IN  IF s.ok
                 THEN Ret(s.fs, d.events \o <<Ev("link", skillName, "linked")>>,
                          FALSE)
                 ELSE Ret(s.fs, d.events \o <<Ev("link", skillName, "EEXIST")>>,
                          TRUE)

\* Variant: the entry type is not checked before removing.
unlinkSkill_noCheck(f, skillName) ==
  LET targetPath == join(TargetDir, skillName)
  IN  IF ~existsSync(f, targetPath)
        THEN Ret(f, <<Ev("unlink", skillName, "notLinked")>>, FALSE)
      ELSE Ret(unlinkSync(f, targetPath),
               <<Ev("unlink", skillName, "unlinked")>>, FALSE)

\* Variant: the removal is reported but not done.
unlinkSkill_keep(f, skillName) ==
  LET targetPath == join(TargetDir, skillName)
  IN  IF ~existsSync(f, targetPath)
        THEN Ret(f, <<Ev("unlink", skillName, "notLinked")>>, FALSE)
      ELSE IF ~isSymbolicLink(lstatSync(f, targetPath))
        THEN Ret(f, <<Ev("unlink", skillName, "conflict")>>, FALSE)
      ELSE Ret(f, <<Ev("unlink", skillName, "unlinked")>>, FALSE)

unlinkSkill(f, skillName) ==
  LET targetPath == join(TargetDir, skillName)
  IN  IF ~existsSync(f, targetPath)
        THEN Ret(f, <<Ev("unlink", skillName, "notLinked")>>, FALSE)
      ELSE IF ~isSymbolicLink(lstatSync(f, targetPath))
        THEN Ret(f, <<Ev("unlink", skillName, "conflict")>>, FALSE)
      ELSE Ret(unlinkSync(f, targetPath),
               <<Ev("unlink", skillName, "unlinked")>>, FALSE)

getIcon(skill) ==
  IF skill.isLinked THEN "linked"
  ELSE IF skill.isBroken THEN "broken"
  ELSE "unlinked"

\* One rendered line: icon, name and the "(broken)" suffix.
Line(skill) ==
  [icon |-> getIcon(skill), name |-> skill.name, broken |-> skill.isBroken]

Snapshot(f, skills) ==
  [i \in 1..Len(skills) |-> getSymlinkStatus(f, skills[i])]

Render(list) == [i \in 1..Len(list) |-> Line(list[i])]

----------------------------------------------------------------------------
\* Initial states: any filesystem, the tool not running.

\* The target directories: one entry per slot.
RECURSIVE Targets(_)
Targets(S) ==
  IF S = {} THEN {<<>>}
  ELSE LET n == CHOOSE x \in S : TRUE IN
         {t @@ (n :> e) : t \in Targets(S \ {n}), e \in Entries(n)}

FileSystems ==
  {[skillsDir |-> TRUE, skills |-> s, targetDir |-> TRUE, target |-> t] :
     s \in [Names -> {"none", "dir", "file"}], t \in Targets(Names)}
  \cup {[skillsDir |-> TRUE, skills |-> s, targetDir |-> FALSE,
         target |-> [n \in Names |-> NoEntry]] :
           s \in [Names -> {"none", "dir", "file"}]}
  \cup {[skillsDir |-> FALSE, skills |-> [n \in Names |-> "none"],
         targetDir |-> TRUE, target |-> t] : t \in Targets(Names)}
  \cup {[skillsDir |-> FALSE, skills |-> [n \in Names |-> "none"],
         targetDir |-> FALSE, target |-> [n \in Names |-> NoEntry]]}

Init ==
  /\ fs \in FileSystems
  /\ mode = "shell"
  /\ statusList = <<>>
  /\ log = <<>>
  /\ out = <<>>
  /\ exitCode = -1
  /\ eof = FALSE
  /\ procs = <<>>

----------------------------------------------------------------------------
\* Text read from the terminal: a sequence of one-character strings.

Digits == <<"0", "1", "2", "3", "4", "5", "6", "7", "8", "9">>

IsDigit(c) == \E i \in 1..10 : Digits[i] = c

DigitVal(c) == (CHOOSE i \in 1..10 : Digits[i] = c) - 1

IsSpace(c) == c \in {" ", "\n"}

RECURSIVE TrimStart(_)
TrimStart(s) ==
  IF s # <<>> /\ IsSpace(Head(s)) THEN TrimStart(Tail(s)) ELSE s

RECURSIVE TrimEnd(_)
TrimEnd(s) ==
  IF s # <<>> /\ IsSpace(s[Len(s)])
    THEN TrimEnd(SubSeq(s, 1, Len(s) - 1)) ELSE s

\* String.prototype.trim
trim(s) == TrimEnd(TrimStart(s))

toLowerCase(s) == [i \in 1..Len(s) |-> IF s[i] = "Q" THEN "q" ELSE s[i]]

\* Value of the longest prefix of digits of s, after acc.
RECURSIVE DigitsPrefix(_, _)
DigitsPrefix(s, acc) ==
  IF s # <<>> /\ IsDigit(Head(s))
    THEN DigitsPrefix(Tail(s), 10 * acc + DigitVal(Head(s)))
    ELSE acc

\* Number.parseInt(s, 10): optional sign, then the leading digits; NaN when
\* there is no leading digit.
parseInt(s) ==
  LET t == TrimStart(s)
      neg == t # <<>> /\ Head(t) = "-"
      u == IF t # <<>> /\ Head(t) \in {"-", "+"} THEN Tail(t) ELSE t
  IN  IF u = <<>> \/ ~IsDigit(Head(u))
        THEN [isNaN |-> TRUE, value |-> 0]
        ELSE [isNaN |-> FALSE,
              value |-> IF neg THEN 0 - DigitsPrefix(u, 0)
                        ELSE DigitsPrefix(u, 0)]

\* Lines the operator may type (as read, before trimming).
Inputs ==
  {<<"q", "\n">>, <<"Q", "\n">>, <<"\n">>, <<"x", "\n">>,
   <<"-", "1", "\n">>, <<"0", "\n">>, <<" ", "1", "\n">>, <<"1", "x", "\n">>,
   <<"1", "0", "\n">>}
    \cup {<<Digits[i + 1], "\n">> : i \in 1..(MaxSkills + 1)}

\* What may have been read when the stream ends: reader.read() reports done
\* before any "\n" arrived.
LastInputs == {<<>>, <<"q">>, <<"1">>}

----------------------------------------------------------------------------
\* src/cli/commands: list, link, unlink

\* What the positional argument <name> may be: parse: String accepts any
\* string, the empty one included.
Args == Names \cup {""}

ConfigError == <<Ev("config", "", "skillsDirNotFound")>>

\* Variant: list creates the target directory before probing it.
ListCmd_ensuresTargetDir ==
  /\ mode = "shell"
  /\ LET a == getAvailableSkills(fs) IN
       IF a.exit
         THEN /\ log' = ConfigError
              /\ out' = <<>>
              /\ exitCode' = 1
              /\ fs' = fs
         ELSE /\ log' = <<>>
              /\ out' = Render(Snapshot(fs, a.skills))
              /\ exitCode' = 0
              /\ fs' = ensureTargetDir(fs).fs
  /\ UNCHANGED <<mode, statusList, eof, procs>>

\* skills list | ls
ListCmd ==
  /\ mode = "shell"
  /\ LET a == getAvailableSkills(fs) IN
       IF a.exit
         THEN /\ log' = ConfigError
              /\ out' = <<>>
              /\ exitCode' = 1
         ELSE /\ log' = <<>>
              /\ out' = Render(Snapshot(fs, a.skills))
              /\ exitCode' = 0
  /\ UNCHANGED <<fs, mode, statusList, eof, procs>>

\* skills link <name>
LinkCmd(name) ==
  /\ mode = "shell"
  /\ LET r == linkSkill(fs, name) IN
       /\ fs' = r.fs
       /\ log' = r.events
       /\ exitCode' = IF r.threw THEN 1 ELSE 0
  /\ out' = <<>>
  /\ UNCHANGED <<mode, statusList, eof, procs>>

\* skills unlink <name>
UnlinkCmd(name) ==
  /\ mode = "shell"
  /\ LET r == unlinkSkill(fs, name) IN
       /\ fs' = r.fs
       /\ log' = r.events
       /\ exitCode' = IF r.threw THEN 1 ELSE 0
  /\ out' = <<>>
  /\ UNCHANGED <<mode, statusList, eof, procs>>

----------------------------------------------------------------------------
\* src/cli/commands/interactive.ts

\* The head of the while loop: discover, snapshot, render, wait for input.
LoopHead(f, variant, events) ==
  LET a == getAvailableSkills(f) IN
    IF a.exit
      THEN /\ mode' = "shell"
           /\ statusList' = <<>>
           /\ log' = events \o ConfigError
           /\ out' = <<>>
           /\ exitCode' = 1
      ELSE /\ mode' = variant
           /\ statusList' = Snapshot(f, a.skills)
           /\ log' = events
           /\ out' = Render(Snapshot(f, a.skills))
           /\ exitCode' = -1

\* The command ends: normally, or by an exception leaving the loop.
LoopExit(events, code) ==
  /\ mode' = "shell"
  /\ statusList' = <<>>
  /\ log' = events
  /\ out' = <<>>
  /\ exitCode' = code

\* skills interactive | i, in either variant of the command
InteractiveStart(variant) ==
  /\ mode = "shell"
  /\ LoopHead(fs, variant, <<>>)
  /\ UNCHANGED <<fs, eof, procs>>

\* Variant: the test of the snapshot is inverted.
toggleSkill_inverted(f, skill) ==
  IF ~skill.isLinked THEN unlinkSkill(f, skill.name)
  ELSE linkSkill(f, skill.name)

toggleSkill(f, skill) ==
  IF skill.isLinked THEN unlinkSkill(f, skill.name)
  ELSE linkSkill(f, skill.name)

\* await new Promise((resolve) => setTimeout(resolve, 500)): the loop is
\* suspended with the operator's report on the screen.
Sleep(events) ==
  /\ mode' = "sleep"
  /\ statusList' = statusList
  /\ log' = events
  /\ out' = <<>>
  /\ exitCode' = -1

\* The body of the while loop after readLine returned trim(raw).
LoopBody(raw) ==
  LET input == trim(raw)
      choice == parseInt(input)
  IN  IF toLowerCase(input) = <<"q">>
        THEN LoopExit(<<>>, 0) /\ UNCHANGED fs
      ELSE IF choice.isNaN \/ choice.value < 1
                \/ choice.value > Len(statusList)
        THEN LoopHead(fs, "toggle", <<>>) /\ UNCHANGED fs
      ELSE LET r == toggleSkill(fs, statusList[choice.value]) IN
             /\ fs' = r.fs
             /\ IF r.threw THEN LoopExit(r.events, 1)
                ELSE Sleep(r.events)

\* One line of input in the toggle variant.
ToggleInput(raw) ==
  /\ mode = "toggle"
  /\ ~eof
  /\ LoopBody(raw)
  /\ UNCHANGED <<eof, procs>>

\* The stream ends while readLine waits: it returns what it has read.
EndOfStream(raw) ==
  /\ mode = "toggle"
  /\ ~eof
  /\ LoopBody(raw)
  /\ eof' = (mode' # "shell")
  /\ UNCHANGED procs

\* readLine on a stream that has ended: reader.read() reports done at once.
ReadEnded ==
  /\ mode = "toggle"
  /\ eof
  /\ LoopBody(<<>>)
  /\ eof' = (mode' # "shell")
  /\ UNCHANGED procs

\* The timer fires: the loop goes back to its head.
Wake ==
  /\ mode = "sleep"
  /\ LoopHead(fs, "toggle", <<>>)
  /\ fs' = fs
  /\ eof' = (eof /\ mode' # "shell")
  /\ UNCHANGED procs

\* statusList.map((s) => s.name)
NamesOf(list) == [i \in 1..Len(list) |-> list[i].name]

InSeq(x, s) == \E i \in 1..Len(s) : s[i] = x

\* for (const skillName of selectedSkills) if (!currentlyLinked.has(...))
RECURSIVE LinkLoop(_, _, _)
LinkLoop(r, selectedSkills, currentlyLinked) ==
  IF selectedSkills = <<>> \/ r.threw THEN r
  ELSE IF ~InSeq(Head(selectedSkills), currentlyLinked)
    THEN LET s == linkSkill(r.fs, Head(selectedSkills)) IN
           LinkLoop(Ret(s.fs, r.events \o s.events, s.threw),
                    Tail(selectedSkills), currentlyLinked)
    ELSE LinkLoop(r, Tail(selectedSkills), currentlyLinked)

\* for (const skillName of currentlyLinked) if (!selectedSkills.has(...))
RECURSIVE UnlinkLoop(_, _, _)
UnlinkLoop(r, currentlyLinked, selectedSkills) ==
  IF currentlyLinked = <<>> \/ r.threw THEN r
  ELSE IF ~InSeq(Head(currentlyLinked), selectedSkills)
    THEN LET s == unlinkSkill(r.fs, Head(currentlyLinked)) IN
           UnlinkLoop(Ret(s.fs, r.events \o s.events, s.threw),
                      Tail(currentlyLinked), selectedSkills)
    ELSE UnlinkLoop(r, Tail(currentlyLinked), selectedSkills)

\* Variant: the second loop is missing, nothing is unlinked.
ApplySelection_linkOnly(f, list, selectedSkills) ==
  LET IsLinked(s) == s.isLinked
      currentlyLinked == NamesOf(SelectSeq(list, IsLinked))
  IN  LinkLoop(Ret(f, <<>>, FALSE), selectedSkills, currentlyLinked)

ApplySelection(f, list, selectedSkills) ==
  LET IsLinked(s) == s.isLinked
      currentlyLinked == NamesOf(SelectSeq(list, IsLinked))
      linked == LinkLoop(Ret(f, <<>>, FALSE), selectedSkills, currentlyLinked)
  IN  UnlinkLoop(linked, currentlyLinked, selectedSkills)

\* Enter in the multiselect variant with selection S.
Confirm(S) ==
  /\ mode = "multiselect"
  /\ S \subseteq {statusList[i].name : i \in 1..Len(statusList)}
  /\ LET Chosen(s) == s.name \in S
         r == ApplySelection(fs, statusList,
                             NamesOf(SelectSeq(statusList, Chosen)))
     IN  /\ fs' = r.fs
         /\ IF r.threw THEN LoopExit(r.events, 1)
            ELSE LoopHead(r.fs, "multiselect", r.events)
  /\ UNCHANGED <<eof, procs>>

\* Variant: a cancelled prompt is taken for an empty selection.
Cancel_emptySelection ==
  /\ mode = "multiselect"
  /\ fs' = ApplySelection(fs, statusList, <<>>).fs
  /\ LoopExit(<<>>, 0)
  /\ UNCHANGED <<eof, procs>>

\* Ctrl+C in the multiselect variant: response.skills is undefined.
Cancel ==
  /\ mode = "multiselect"
  /\ LoopExit(<<>>, 0)
  /\ UNCHANGED <<fs, eof, procs>>

Next ==
  \/ ListCmd
  \/ \E name \in Args : LinkCmd(name)
  \/ \E name \in Args : UnlinkCmd(name)
  \/ \E variant \in {"multiselect", "toggle"} : InteractiveStart(variant)
  \/ \E raw \in Inputs : ToggleInput(raw)
  \/ \E raw \in LastInputs : EndOfStream(raw)
  \/ ReadEnded
  \/ Wake
  \/ \E S \in SUBSET Names : Confirm(S)
  \/ Cancel

Spec == Init /\ [][Next]_vars

\* The running command is never starved: a read of the ended stream returns
\* and the timer fires.  What the operator does is not constrained.
FairSpec == Spec /\ WF_vars(ReadEnded) /\ WF_vars(Wake)

----------------------------------------------------------------------------
\* Vocabulary of the properties

\* The operation was attempted on the skill in the last command or iteration.
Did(op, name) ==
  \E i \in 1..Len(log) : log[i].op = op /\ log[i].name = name

\* ... and this is how it ended.
Result(op, name, result) ==
  \E i \in 1..Len(log) : log[i] = Ev(op, name, result)

\* A regular file or a directory: an entry the tool did not create.
IsForeign(e) == e.kind \in {"file", "dir"}

IsSymlink(e) == e.kind = "symlink"

\* A symbolic link whose target does not resolve.
IsDangling(f, e) == e.kind = "symlink" /\ ~PathExists(f, e.to)

SourcePath(name) == join(SkillsDir, name)

Unlinked(name) == [name |-> name, isLinked |-> FALSE, isBroken |-> FALSE]

\* The rendered line of a skill, if the last rendering has one.
LineOf(name) == {out[i] : i \in {j \in 1..Len(out) : out[j].name = name}}

----------------------------------------------------------------------------
\* C1: whatever the tool does (list, link, unlink, interactive confirm with
\* any selection, cancel, toggle), an entry at target/<name> that is not a
\* symbolic link is still there, unchanged, after the step.
C1_ForeignNeverTouched ==
  [][\A n \in Names :
       IsForeign(fs.target[n]) => fs'.target[n] = fs.target[n]]_vars

\* An interactive iteration tried to link over a foreign entry.
C1_Witness ==
  \E n \in Names :
    /\ mode \in {"multiselect", "toggle"}
    /\ Result("link", n, "conflict")
    /\ IsForeign(fs.target[n])

\* C2: link(name) with an existing source and a non-symlink at target/<name>
\* reports the conflict, creates no symlink and changes nothing: the entry is
\* the same before and after, and so is the rest of the filesystem when the
\* link is all the step did.
C2_LinkConflictNoMutation ==
  [][\A n \in Names :
       (Did("link", n)' /\ existsSync(fs, SourcePath(n))
          /\ IsForeign(fs.target[n]))
       => /\ Result("link", n, "conflict")'
          /\ fs'.target[n] = fs.target[n]
          /\ (Len(log') = 1 => fs' = fs)]_vars

\* "skills link <name>" ran into a regular file, which is still there.
C2_Witness ==
  \E n \in Names :
    /\ mode = "shell"
    /\ log = <<Ev("link", n, "conflict")>>
    /\ fs.target[n].kind = "file"
    /\ fs.skills[n] # "none"

\* C3: for a skill of the skills root whose slot is absent or a symbolic
\* link (of any kind: to its source, to another existing path, dangling),
\* link(name) succeeds and statusOf(name) is Linked afterwards, the slot
\* holding a fresh link to source/<name>.
C3_LinkThenLinked ==
  [][\A n \in Names :
       (Did("link", n)' /\ fs.skills[n] = "dir"
          /\ fs.target[n].kind \in {"none", "symlink"})
       => /\ Result("link", n, "linked")'
          /\ getSymlinkStatus(fs', n).isLinked
          /\ fs'.target[n] = SymlinkEntry(SourcePath(n))]_vars

\* C4: unlink(name) is decided by the entry at target/<name>: nothing there,
\* "not linked" and no change; a non-symlink, conflict; a symbolic link
\* (resolving or not), removed.  Unless a conflict was reported, nothing is
\* at target/<name> afterwards.
C4_UnlinkOutcomes ==
  [][\A n \in Names :
       Did("unlink", n)'
       => /\ (fs.target[n].kind = "none"
                => Result("unlink", n, "notLinked")' /\ fs' = fs)
          /\ (IsForeign(fs.target[n]) => Result("unlink", n, "conflict")')
          /\ (IsSymlink(fs.target[n]) => Result("unlink", n, "unlinked")')
          /\ (~Result("unlink", n, "conflict")'
                => fs'.target[n] = NoEntry)]_vars

\* C5 as stated: after unlink(name), from any state of target/<name>,
\* statusOf(name) is Unlinked, and a second unlink(name) reports no error and
\* changes nothing.
C5_UnlinkIdempotentNoError ==
  [][\A n \in Names :
       Did("unlink", n)'
       => /\ getSymlinkStatus(fs', n) = Unlinked(n)
          /\ unlinkSkill(fs', n).fs = fs'
          /\ ~unlinkSkill(fs', n).threw
          /\ unlinkSkill(fs', n).events = <<Ev("unlink", n, "notLinked")>>]_vars

\* C5 amended: after unlink(name), from any state of target/<name>,
\* statusOf(name) is Unlinked, and a second unlink(name) changes nothing; it
\* reports no error unless target/<name> is a non-symlink, when it reports
\* the conflict again.
C5_UnlinkIdempotent ==
  [][\A n \in Names :
       Did("unlink", n)'
       => /\ getSymlinkStatus(fs', n) = Unlinked(n)
          /\ unlinkSkill(fs', n).fs = fs'
          /\ ~unlinkSkill(fs', n).threw
          /\ unlinkSkill(fs', n).events =
               <<Ev("unlink", n, IF IsForeign(fs.target[n]) THEN "conflict"
                                 ELSE "notLinked")>>]_vars

\* A symbolic link was removed by unlink; the slot is empty.
C5_Witness ==
  \E n \in Names :
    /\ Result("unlink", n, "unlinked")
    /\ fs.target[n] = NoEntry

\* C6: unlink(name) on a non-symlink reports the conflict and changes no
\* entry of the filesystem.
C6_UnlinkConflictNoMutation ==
  [][\A n \in Names :
       (Did("unlink", n)' /\ IsForeign(fs.target[n]))
       => Result("unlink", n, "conflict")' /\ fs' = fs]_vars

\* "skills unlink <name>" ran into a directory, which is still there.
C6_Witness ==
  \E n \in Names :
    /\ log = <<Ev("unlink", n, "conflict")>>
    /\ fs.target[n] = DirEntry

\* C7 as stated: statusOf(name) is Linked exactly when target/<name> is a
\* symbolic link whose stored target is the string source/<name>.
C7_LinkedIffStoredTarget ==
  \A n \in Names :
    getSymlinkStatus(fs, n).isLinked
      <=> fs.target[n] = SymlinkEntry(SourcePath(n))

\* C7 amended: statusOf(name) is Linked exactly when target/<name> is a
\* symbolic link whose stored target is the string source/<name> and
\* source/<name> exists; a dangling link, a link to another path, and a link
\* to another spelling of source/<name> are not Linked.  The rendering shows
\* the linked icon for exactly these skills.
C7_LinkedIffStoredTargetResolves ==
  /\ \A n \in Names :
       getSymlinkStatus(fs, n).isLinked
         <=> /\ fs.target[n] = SymlinkEntry(SourcePath(n))
             /\ fs.skills[n] # "none"
  /\ \A i \in 1..Len(out) :
       out[i].icon = "linked"
         <=> fs.target[out[i].name] = SymlinkEntry(SourcePath(out[i].name))

\* A rendering shows a linked skill next to one whose link stores another
\* spelling of its source path.
C7_Witness ==
  \E i, j \in 1..Len(out) :
    /\ out[i].icon = "linked"
    /\ fs.target[out[i].name] = SymlinkEntry(SourcePath(out[i].name))
    /\ out[j].icon = "unlinked"
    /\ fs.target[out[j].name] = SymlinkEntry(join(AliasDir, out[j].name))

\* C8: a symbolic link at target/<name> whose target does not resolve is
\* reported Broken, and rendered with the "(broken)" annotation.
C8_DanglingIsBroken ==
  \A i \in 1..Len(out) :
    IsDangling(fs, fs.target[out[i].name])
      => out[i].broken /\ getSymlinkStatus(fs, out[i].name).isBroken

\* C9: a non-symlink at target/<name> is reported {isLinked: false,
\* isBroken: false} and rendered as unlinked without annotation; link and
\* unlink check the entry type themselves: neither reports success on it nor
\* changes it.
C9_ForeignProbedUnlinked ==
  /\ [](\A n \in Names :
          IsForeign(fs.target[n])
            => /\ getSymlinkStatus(fs, n) = Unlinked(n)
               /\ \A l \in LineOf(n) : l.icon = "unlinked" /\ ~l.broken)
  /\ [][\A n \in Names :
          (IsForeign(fs.target[n]) /\ (Did("link", n)' \/ Did("unlink", n)'))
          => /\ ~Result("link", n, "linked")'
             /\ ~Result("unlink", n, "unlinked")'
             /\ fs'.target[n] = fs.target[n]]_vars

\* A rendering shows a skill whose slot holds a regular file.
C9_Witness ==
  \E n \in Names :
    /\ fs.target[n].kind = "file"
    /\ LineOf(n) # {}

\* C10: a symbolic link at target/<name> whose stored target is not
\* source/<name> is reported Unlinked, not Broken, and link(name) then
\* succeeds, replacing it by a link to source/<name>.
C10_ForeignLinkReplaced ==
  [][\A n \in Names :
       (Did("link", n)' /\ fs.skills[n] = "dir" /\ IsSymlink(fs.target[n])
          /\ fs.target[n].to # SourcePath(n))
       => /\ getSymlinkStatus(fs, n) = Unlinked(n)
          /\ Result("link", n, "linked")'
          /\ fs'.target[n] = SymlinkEntry(SourcePath(n))]_vars

----------------------------------------------------------------------------
\* C11: for a skill of the skills root whose slot is absent or a symbolic
\* link, link(name); unlink(name); link(name) ends Linked, with target/<name>
\* a symbolic link storing exactly source/<name>, in the same filesystem
\* state as after the first link(name) alone.
C11_LinkUnlinkLinkRoundTrip ==
  [][\A n \in Names :
       (mode = "shell" /\ Did("link", n)' /\ fs.skills[n] = "dir"
          /\ fs.target[n].kind \in {"none", "symlink"})
       => LET second == unlinkSkill(fs', n)
              third == linkSkill(second.fs, n)
          IN  /\ Result("link", n, "linked")'
              /\ second.events = <<Ev("unlink", n, "unlinked")>>
              /\ third.events = <<Ev("link", n, "linked")>>
              /\ getSymlinkStatus(third.fs, n).isLinked
              /\ third.fs.target[n] = SymlinkEntry(SourcePath(n))
              /\ third.fs = fs']_vars

\* The link and unlink operations of the last command or iteration.
Applied ==
  {<<log[i].op, log[i].name>> :
     i \in {j \in 1..Len(log) : log[j].op \in {"link", "unlink"}}}

\* The skills the snapshot of the running iteration reports Linked.
CurrentlyLinked ==
  {statusList[i].name : i \in {j \in 1..Len(statusList) : statusList[j].isLinked}}

\* toLink and toUnlink of a selection, against the snapshot.
Delta(S) ==
  {<<"link", n>> : n \in S \ CurrentlyLinked}
    \cup {<<"unlink", n>> : n \in CurrentlyLinked \ S}

----------------------------------------------------------------------------
\* C12: on confirm of a selection, the operations applied are exactly link
\* for the selected skills the snapshot does not report Linked and unlink
\* for the Linked skills that are not selected; a skill that is Linked and
\* selected keeps its symlink, and confirming the pre-seeded selection
\* applies nothing.
C12_ConfirmAppliesExactlyDelta ==
  [][\A S \in SUBSET Names :
       Confirm(S)
       => /\ Applied' = Delta(S)
          /\ \A n \in S \cap CurrentlyLinked : fs'.target[n] = fs.target[n]
          /\ (S = CurrentlyLinked => log' = <<>> /\ fs' = fs)]_vars

----------------------------------------------------------------------------
\* C13: after a selection S is confirmed and applied, the reconciler is back
\* at its prompt with a fresh snapshot, in which every discovered skill whose
\* slot was absent or a symbolic link before the batch is Linked exactly when
\* it is in S.
C13_ConfirmConverges ==
  [][\A S \in SUBSET Names :
       Confirm(S)
       => /\ mode' = "multiselect"
          /\ NamesOf(statusList') = NamesOf(statusList)
          /\ \A i \in 1..Len(statusList') :
               /\ statusList'[i] = getSymlinkStatus(fs', statusList'[i].name)
               /\ fs.target[statusList'[i].name].kind \in {"none", "symlink"}
                    => (statusList'[i].isLinked <=> statusList'[i].name \in S)]_vars

\* C14: in the apply phase every operation of the batch is attempted: every
\* link of toLink and every unlink of toUnlink is in the report of the
\* iteration, whatever happened to the others.
C14_BatchFailuresIsolated ==
  [][\A S \in SUBSET Names :
       Confirm(S) => Delta(S) \subseteq Applied']_vars

----------------------------------------------------------------------------
\* C15: when the operator cancels the selection (or quits the toggle
\* prompt), the command ends normally without having applied any link or
\* unlink, and the filesystem is as the snapshot saw it.
C15_CancelNoMutation ==
  [][(mode \in {"multiselect", "toggle"} /\ mode' = "shell" /\ exitCode' = 0)
       => /\ fs' = fs
          /\ log' = <<>>
          /\ \A i \in 1..Len(statusList) :
               statusList[i] = getSymlinkStatus(fs', statusList[i].name)]_vars

\* The interactive command was left normally with a skill still linked.
C15_Witness ==
  /\ mode = "shell"
  /\ exitCode = 0
  /\ log = <<>>
  /\ out = <<>>
  /\ \E n \in Names :
       fs.skills[n] = "dir" /\ getSymlinkStatus(fs, n).isLinked

----------------------------------------------------------------------------
\* C16: "skills link <name>" exits 0 exactly when the symlink was created,
\* and non-zero when the skill is not found or the slot is occupied by a
\* non-symlink; "skills unlink <name>" exits 0 on removal or "not linked",
\* and non-zero on conflict.
C16_ExitStatusReflectsOutcome ==
  [][\A n \in Names :
       (mode = "shell" /\ mode' = "shell")
       => /\ Did("link", n)'
               => (exitCode' = 0 <=> Result("link", n, "linked")')
          /\ Did("unlink", n)'
               => (exitCode' = 0 <=> ~Result("unlink", n, "conflict")')]_vars

----------------------------------------------------------------------------
\* C17: when the skills root does not exist, whichever command is invoked
\* (list, link, unlink, interactive) reports the missing directory and exits
\* non-zero, having rendered nothing and changed nothing.
C17_MissingRootIsFatal ==
  [][(mode = "shell" /\ ~existsSync(fs, join(SkillsDir, "")))
       => /\ exitCode' = 1
          /\ log' = ConfigError
          /\ out' = <<>>
          /\ mode' = "shell"
          /\ fs' = fs]_vars

----------------------------------------------------------------------------
\* C18: listSkills() returns the names of the subdirectories of the skills
\* root and nothing else, each once, in ascending order; what list and the
\* interactive prompt render is that sequence.
C18_ListSkillsSortedDirs ==
  LET a == getAvailableSkills(fs) IN
    ~a.exit
    => /\ \A n \in Names :
            Cardinality({i \in 1..Len(a.skills) : a.skills[i] = n})
              = IF fs.skills[n] = "dir" THEN 1 ELSE 0
       /\ \A i \in 1..Len(a.skills) : a.skills[i] \in Names
       /\ \A i, j \in 1..Len(a.skills) :
            i < j => Rank(a.skills[i]) < Rank(a.skills[j])
       /\ (out # <<>> => NamesOf(out) = a.skills)

\* list rendered two skills next to each other.
C18_Witness ==
  /\ mode = "shell"
  /\ exitCode = 0
  /\ Len(out) >= 2
  /\ Rank(out[1].name) < Rank(out[2].name)

----------------------------------------------------------------------------
\* C19: statusOf and list only read: a step that applies no link and no
\* unlink (list, a probe for the prompt, a rendering) leaves the skills root,
\* the target directory (also a missing one) and every entry as they were,
\* and renders the same lines as the rendering before it.
C19_ProbeAndListReadOnly ==
  [][Applied' = {}
       => /\ fs' = fs
          /\ \A n \in Names : getSymlinkStatus(fs', n) = getSymlinkStatus(fs, n)
          /\ (out # <<>> /\ out' # <<>> => out' = out)]_vars

\* list rendered the skills while the target directory does not exist.
C19_Witness ==
  /\ mode = "shell"
  /\ exitCode = 0
  /\ out # <<>>
  /\ ~fs.targetDir

----------------------------------------------------------------------------
\* C20: link(name) and unlink(name) touch the slot target/<name> only: the
\* entry and the status of every skill the step applied no operation to are
\* the same before and after, and the skills root is never changed.
C20_OtherSlotsUntouched ==
  [][/\ \A m \in Names :
          (~Did("link", m)' /\ ~Did("unlink", m)')
          => /\ fs'.target[m] = fs.target[m]
             /\ getSymlinkStatus(fs', m) = getSymlinkStatus(fs, m)
     /\ fs'.skills = fs.skills
     /\ fs'.skillsDir = fs.skillsDir]_vars

\* "skills link <name>" replaced a symlink and linked the skill while another
\* slot holds a symlink.
C20_Witness ==
  \E n, m \in Names :
    /\ n # m
    /\ mode = "shell"
    /\ log = <<Ev("link", n, "linked")>>
    /\ getSymlinkStatus(fs, n).isLinked
    /\ fs.target[m].kind = "symlink"
    /\ getSymlinkStatus(fs, m) = Unlinked(m)

----------------------------------------------------------------------------
\* C21: "skills link <name>" and "skills unlink <name>" given the empty
\* string as name exit non-zero without having applied link or unlink to a
\* path derived from that name.
C21_EmptyNameRejected ==
  [][(LinkCmd("") \/ UnlinkCmd(""))
       => /\ exitCode' # 0
          /\ Applied' = {}]_vars

\* The operations of the last command or iteration that reported an error.
Failures ==
  {i \in 1..Len(log) : log[i].result \in {"notFound", "conflict", "EEXIST"}}

----------------------------------------------------------------------------
\* C22: when operations of a confirmed batch failed, the report of the
\* iteration ends with a summary of the failures.
C22_FailureSummaryReported ==
  [][\A S \in SUBSET Names :
       (Confirm(S) /\ Failures' # {})
       => log'[Len(log')].op = "summary"]_vars

\* The link and unlink events of a report, in order.
Operations(events) ==
  LET IsOperation(e) == e.op \in {"link", "unlink"} IN
    SelectSeq(events, IsOperation)

\* What the toggle loop is to do with a line that parses to choice: one
\* operation on the choice-th skill of the sorted list, or nothing.
ToggledOne(choice) ==
  LET skills == getAvailableSkills(fs).skills IN
    IF ~choice.isNaN /\ choice.value >= 1 /\ choice.value <= Len(skills)
      THEN LET name == skills[choice.value] IN
             /\ Len(Operations(log')) = 1
             /\ Operations(log')[1].name = name
             /\ Operations(log')[1].op =
                  IF getSymlinkStatus(fs, name).isLinked
                    THEN "unlink" ELSE "link"
      ELSE Applied' = {} /\ fs' = fs

----------------------------------------------------------------------------
\* C23: in the toggle variant, an input that parses to an integer n with
\* 1 <= n <= N applies exactly one operation, to the n-th skill of the sorted
\* list: unlink if it is Linked, link otherwise; any other input applies no
\* operation and leaves the filesystem as it is.  (Stated step by step: a
\* step that does anything else is not the step taken on that input.)
C23_ToggleAppliesOne ==
  [][mode = "toggle"
       => /\ \A raw \in Inputs :
               ~ToggledOne(parseInt(trim(raw))) => ~ToggleInput(raw)
          /\ \A raw \in LastInputs :
               ~ToggledOne(parseInt(trim(raw))) => ~EndOfStream(raw)]_vars

\* The toggle loop unlinked a skill and sleeps before its next snapshot.
C23_Witness ==
  \E n \in Names :
    /\ mode = "sleep"
    /\ log = <<Ev("unlink", n, "unlinked")>>
    /\ fs.target[n] = NoEntry

----------------------------------------------------------------------------
\* C24: the toggle loop is suspended nowhere but at its wait for input; it
\* ends, normally and without a change, exactly when the trimmed input is
\* "q" in either case, and after any other input it is back at the prompt
\* with a fresh snapshot of all skills.
C24_QuitExactlyOnQ ==
  /\ [](mode \in {"shell", "toggle", "multiselect"})
  /\ [][\A raw \in Inputs \cup LastInputs :
          (ToggleInput(raw) \/ EndOfStream(raw))
          => IF toLowerCase(trim(raw)) = <<"q">>
               THEN mode' = "shell" /\ exitCode' = 0 /\ fs' = fs
               ELSE /\ mode' = "toggle"
                    /\ statusList' =
                         Snapshot(fs', getAvailableSkills(fs').skills)]_vars

----------------------------------------------------------------------------
\* C25: link(name) when source/<name> does not exist reports "not found"
\* without raising; no symlink is created and every entry of the target
\* directory, the one at target/<name> included, is as before; the only
\* change it can make is creating the target directory when it was missing.
C25_LinkMissingSource ==
  [][\A n \in Args :
       (Did("link", n)' /\ ~existsSync(fs, SourcePath(n)))
       => /\ Result("link", n, "notFound")'
          /\ exitCode' = 0
          /\ fs'.target = fs.target
          /\ fs'.skills = fs.skills
          /\ fs'.skillsDir = fs.skillsDir
          /\ fs'.targetDir
          /\ (fs' # fs => ~fs.targetDir /\ fs' = mkdirSync(fs))]_vars

\* "skills link <name>" did not find the skill; the symbolic link that was
\* in its slot is still there.
C25_Witness ==
  \E n \in Names :
    /\ mode = "shell"
    /\ log = <<Ev("link", n, "notFound")>>
    /\ fs.skills[n] = "none"
    /\ fs.target[n].kind = "symlink"

----------------------------------------------------------------------------
\* C26: statusOf(name) is never Linked and Broken at once, for any name in
\* any filesystem state; so getIcon shows the linked icon exactly for the
\* Linked statuses, the broken icon exactly for the Broken ones and the
\* unlinked icon for the rest, and no rendered line has the linked icon with
\* the "(broken)" suffix.
C26_NeverLinkedAndBroken ==
  /\ \A n \in Args :
       LET s == getSymlinkStatus(fs, n) IN
         /\ ~(s.isLinked /\ s.isBroken)
         /\ (getIcon(s) = "linked" <=> s.isLinked)
         /\ (getIcon(s) = "broken" <=> s.isBroken)
         /\ (getIcon(s) = "unlinked" <=> ~s.isLinked /\ ~s.isBroken)
  /\ \A i \in 1..Len(statusList) :
       ~(statusList[i].isLinked /\ statusList[i].isBroken)
  /\ \A i \in 1..Len(out) : out[i].broken => out[i].icon # "linked"

\* The prompt shows a Linked skill, without suffix, next to a skill whose
\* slot holds a dangling link.
C26_Witness ==
  \E i, j \in 1..Len(statusList) :
    /\ mode \in {"toggle", "multiselect"}
    /\ statusList[i].isLinked
    /\ out[i] = [icon |-> "linked", name |-> statusList[i].name,
                 broken |-> FALSE]
    /\ IsDangling(fs, fs.target[statusList[j].name])

----------------------------------------------------------------------------
\* C27: link(name) creates a symbolic link only for a name listSkills()
\* returns, and only at target/<name>: for any other name (a regular file of
\* the skills root, the empty string, a name not in the skills root) the
\* target directory has the same entries after link as before.
C27_LinkOnlyListedSkills ==
  [][\A n \in Args :
       Did("link", n)'
       => /\ \A m \in Names \ {n} : fs'.target[m] = fs.target[m]
          /\ ~InSeq(n, getAvailableSkills(fs).skills)
               => /\ fs'.target = fs.target
                  /\ ~Result("link", n, "linked")']_vars

----------------------------------------------------------------------------
\* C28: once the input stream of the toggle loop has ended, the loop
\* eventually exits.
C28_EofTerminates == eof ~> (mode = "shell")

\* The pre-seeded selection of a snapshot with the i-th skill flipped, in
\* the order of the choices.
Flipped(list, i) ==
  LET Chosen(s) == s.isLinked # (s.name = list[i].name) IN
    NamesOf(SelectSeq(list, Chosen))

----------------------------------------------------------------------------
\* C29: from the filesystem state and snapshot of any prompt, choosing skill
\* i in the toggle variant (toggleSkill) applies the same operation, with
\* the same outcome and the same resulting filesystem, as confirming in the
\* multiselect variant the pre-seeded selection with skill i flipped.
C29_VariantsAgreeOnToggle ==
  mode \in {"toggle", "multiselect"}
  => \A i \in 1..Len(statusList) :
       toggleSkill(fs, statusList[i])
         = ApplySelection(fs, statusList, Flipped(statusList, i))

\* The multiselect prompt is back after a confirmed selection that unlinked
\* one skill.
C29_Witness ==
  \E n \in Names :
    /\ mode = "multiselect"
    /\ log = <<Ev("unlink", n, "unlinked")>>
    /\ fs.target[n] = NoEntry
    /\ fs.skills[n] = "dir"

----------------------------------------------------------------------------
\* Two tool processes side by side, each running linkSkill(name) or
\* unlinkSkill(name) of src/cli/shared.ts on the same name.  Every call of
\* node:fs is one step; a process is at the call it is about to make.

Procs == {1, 2}

Proc(op, name) ==
  [op |-> op, name |-> name,
   pc |-> IF op = "link" THEN "ensure" ELSE "exists", result |-> ""]

\* The filesystems the processes start on: the skill exists, its slot is
\* absent or holds the link to its source; nothing else is there.
RaceFileSystems(name) ==
  LET Start(d, e) ==
        [skillsDir |-> TRUE,
         skills |-> [n \in Names |-> IF n = name THEN "dir" ELSE "none"],
         targetDir |-> d,
         target |-> [n \in Names |-> IF n = name THEN e ELSE NoEntry]]
  IN  {Start(FALSE, NoEntry), Start(TRUE, NoEntry),
       Start(TRUE, SymlinkEntry(join(SkillsDir, name)))}

RaceInit ==
  /\ \E name \in Names :
       /\ fs \in RaceFileSystems(name)
       /\ procs \in [Procs -> {Proc(op, name) : op \in {"link", "unlink"}}]
  /\ mode = "race"
  /\ statusList = <<>>
  /\ log = <<>>
  /\ out = <<>>
  /\ exitCode = -1
  /\ eof = FALSE

\* The process goes on to its next call.
Goto(p, pc) ==
  /\ procs' = [procs EXCEPT ![p].pc = pc]
  /\ log' = log

\* The function returns, or an exception of node:fs ends the process.
Finish(p, pc, result) ==
  /\ procs' = [procs EXCEPT ![p].pc = pc, ![p].result = result]
  /\ log' = Append(log, Ev(procs[p].op, procs[p].name, result))

\* ensureTargetDir: if (!existsSync(context.targetDir))
RaceEnsure(p) ==
  /\ procs[p].pc = "ensure"
  /\ Goto(p, IF existsSync(fs, join(TargetDir, "")) THEN "source" ELSE "mkdir")
  /\ UNCHANGED <<fs, mode, statusList, out, exitCode, eof>>

\* mkdirSync(context.targetDir, { recursive: true }): no error when it exists
RaceMkdir(p) ==
  /\ procs[p].pc = "mkdir"
  /\ fs' = mkdirSync(fs)
  /\ Goto(p, "source")
  /\ UNCHANGED <<mode, statusList, out, exitCode, eof>>

\* linkSkill: if (!existsSync(sourcePath))
RaceSource(p) ==
  /\ procs[p].pc = "source"
  /\ IF existsSync(fs, join(SkillsDir, procs[p].name))
       THEN Goto(p, "exists")
       ELSE Finish(p, "done", "notFound")
  /\ UNCHANGED <<fs, mode, statusList, out, exitCode, eof>>

\* linkSkill: if (existsSync(targetPath)); unlinkSkill: if (!existsSync(...))
RaceExists(p) ==
  /\ procs[p].pc = "exists"
  /\ IF existsSync(fs, join(TargetDir, procs[p].name))
       THEN Goto(p, "lstat")
       ELSE IF procs[p].op = "link" THEN Goto(p, "symlink")
       ELSE Finish(p, "done", "notLinked")
  /\ UNCHANGED <<fs, mode, statusList, out, exitCode, eof>>

\* lstatSync(targetPath) throws ENOENT when nothing is at the path.
RaceLstat(p) ==
  /\ procs[p].pc = "lstat"
  /\ LET stats == lstatSync(fs, join(TargetDir, procs[p].name)) IN
       IF stats.kind = "none" THEN Finish(p, "failed", "ENOENT")
       ELSE IF ~isSymbolicLink(stats) THEN Finish(p, "done", "conflict")
       ELSE Goto(p, "unlink")
  /\ UNCHANGED <<fs, mode, statusList, out, exitCode, eof>>

\* unlinkSync(targetPath) removes what is at the path, and throws ENOENT
\* when nothing is.
RaceUnlink(p) ==
  /\ procs[p].pc = "unlink"
  /\ LET targetPath == join(TargetDir, procs[p].name) IN
       IF lstatSync(fs, targetPath).kind = "none"
         THEN Finish(p, "failed", "ENOENT") /\ fs' = fs
         ELSE /\ fs' = unlinkSync(fs, targetPath)
              /\ IF procs[p].op = "link" THEN Goto(p, "symlink")
                 ELSE Finish(p, "done", "unlinked")
  /\ UNCHANGED <<mode, statusList, out, exitCode, eof>>

\* Variant: the link stores another spelling of the source path.
RaceSymlink_alias(p) ==
  /\ procs[p].pc = "symlink"
  /\ LET s == symlinkSync(fs, join(AliasDir, procs[p].name),
                          join(TargetDir, procs[p].name))
     IN  /\ fs' = s.fs
         /\ IF s.ok THEN Finish(p, "done", "linked")
            ELSE Finish(p, "failed", "EEXIST")
  /\ UNCHANGED <<mode, statusList, out, exitCode, eof>>

\* symlinkSync(sourcePath, targetPath) throws EEXIST when the path is taken.
RaceSymlink(p) ==
  /\ procs[p].pc = "symlink"
  /\ LET s == symlinkSync(fs, join(SkillsDir, procs[p].name),
                          join(TargetDir, procs[p].name))
     IN  /\ fs' = s.fs
         /\ IF s.ok THEN Finish(p, "done", "linked")
            ELSE Finish(p, "failed", "EEXIST")
  /\ UNCHANGED <<mode, statusList, out, exitCode, eof>>

RaceProc(p) ==
  \/ RaceEnsure(p)
  \/ RaceMkdir(p)
  \/ RaceSource(p)
  \/ RaceExists(p)
  \/ RaceLstat(p)
  \/ RaceUnlink(p)
  \/ RaceSymlink(p)

RaceNext == \E p \in Procs : RaceProc(p)

\* The operating system schedules every process.
RaceSpec ==
  RaceInit /\ [][RaceNext]_vars /\ \A p \in Procs : WF_vars(RaceProc(p))

----------------------------------------------------------------------------
\* C30: however the filesystem calls of two processes running link(name) or
\* unlink(name) on one name interleave, from a slot that is absent or holds
\* the link to source/<name>: the slot is always absent or a symbolic link
\* storing source/<name>; nothing but a symbolic link is ever removed; a
\* process that does not complete has stopped on a reported error of the
\* filesystem; and every process does one or the other.
C30_RacesAreSafe ==
  /\ [](\A n \in Names :
          fs.target[n] \in {NoEntry, SymlinkEntry(SourcePath(n))})
  /\ [][\A n \in Names :
          fs'.target[n] # fs.target[n] /\ fs.target[n] # NoEntry
          => IsSymlink(fs.target[n])]_vars
  /\ [](\A p \in Procs :
          procs[p].pc = "failed"
          => /\ procs[p].result \in {"ENOENT", "EEXIST"}
             /\ Result(procs[p].op, procs[p].name, procs[p].result))
  /\ <>[](\A p \in Procs : procs[p].pc \in {"done", "failed"})

\* Two link(name) raced: one created the link, the other stopped on EEXIST.
C30_Witness ==
  \E p, q \in Procs :
    /\ mode = "race"
    /\ procs[p].pc = "failed" /\ procs[p].result = "EEXIST"
    /\ procs[q].pc = "done" /\ procs[q].result = "linked"
    /\ fs.target[procs[p].name] = SymlinkEntry(SourcePath(procs[p].name))

====
